---- MODULE Spec2Model ----
(***************************************************************************)
(* Provisioning and teardown of the ParlAI MTurk stack                     *)
(* (parlai/mturk/core/setup_aws_ec2.py): setup_rds, remove_rds_database    *)
(* and clean_aws run as one thread of control against the provider, whose  *)
(* instance changes status on its own between two requests of the program. *)
(***************************************************************************)
EXTENDS Integers, FiniteSets, Sequences, TLC

\* Bounds of the model.
MaxGen == 3
MaxGroups == 2

\* Module constants of setup_aws_ec2.py.
rds_db_instance_class == "db.t2.medium"
OtherInstanceClass == "db.t2.small"

Absent == "absent"
Statuses == {"creating", "available", "deleting", "backing-up", "modifying", "failed"}
InstanceClasses == {rds_db_instance_class, OtherInstanceClass}
Health == {"healthy", "missing_table", "inconsistent_schema", "unknown_error"}
None == 0

VARIABLES
    \* provider: the database instance
    inst,          \* Absent or the DBInstanceStatus of the instance
    instClass,     \* DBInstanceClass of the instance
    instGen,       \* number of instances created so far; names the endpoint of the live one
    schema,        \* what a health check of the live database reports
    \* provider: the security group with the fixed name
    sg,            \* None or the GroupId of the group
    sgCount,       \* number of groups created so far
    sgIngress,     \* number of ingress rules of the group
    sgLive,        \* number of groups with the fixed name in existence
    \* program
    pc, cmd, retpc,
    security_group_id, status, rm_status, host, database_health_status,
    \* setup_aws and setup_ec2_server_api
    rds_host,      \* what setup_rds returned to setup_aws
    ec2_host_name, \* the deployment target typed in by the operator
    rds_vals,      \* the local file rds_vals.txt
    uploaded,      \* the rds_vals.txt this invocation copied to the server
    urls,          \* the host the returned endpoint urls are built from
    \* calculate_mturk_cost and check_mturk_balance
    call,          \* the running call: function, arguments, position, locals, outcome
    \* the pipeline of another user on the same account
    otherPc,       \* where the other user's invocation is
    otherInst,     \* the other user's instance
    otherSgid,     \* the group id the other user's setup_rds holds
    \* history of the current invocation
    createReqs,    \* create_db_instance requests issued
    delReqs,       \* delete_db_instance requests issued
    sgDelReqs,     \* delete_security_group requests issued
    faulted,       \* an unclassified provider error was returned
    start,         \* the provider's instance when the invocation started
    checks,        \* health checks: instance checked last and before, requests since
    rm,            \* the running remove_rds_database: status it found, deletes it issued
    sgPath,        \* how the security-group step went
    result,        \* how the invocation ended
    \* history across invocations
    sgAuthReqs,    \* authorize_security_group_ingress requests issued for the live group
    prevSgid       \* group id the previous security-group step yielded

rdsVars == <<inst, instClass, instGen, schema>>
sgVars == <<sg, sgCount, sgIngress, sgLive>>
localVars == <<security_group_id, status, rm_status, host, database_health_status>>
histVars == <<createReqs, delReqs, sgDelReqs, faulted, start, checks, rm, sgPath, result, sgAuthReqs, prevSgid>>
otherVars == <<otherPc, otherInst, otherSgid>>
awsVars == <<rds_host, ec2_host_name, rds_vals, uploaded, urls>>
vars == <<rdsVars, sgVars, pc, cmd, retpc, localVars, awsVars, otherVars, call, histVars>>

\* The operator's answers to get_ec2_details, and rds_vals.txt before it is written.
Ec2Hosts == {"ec2-a", "ec2-b"}
NoFile == [exists |-> FALSE, rds_host |-> 0]

NoChecks == [last |-> 0, prev |-> 0, dels |-> 0, creates |-> 0, pdels |-> 0, pcreates |-> 0, inited |-> FALSE]

NoRm == [first |-> "none", dels |-> 0]

NoCall == [fn |-> "none"]

\* The provider and the pipeline before an invocation.
InitStack ==
    /\ inst \in Statuses \cup {Absent}
    /\ instClass \in (IF inst = Absent THEN {rds_db_instance_class} ELSE InstanceClasses)
    /\ instGen = (IF inst = Absent THEN 0 ELSE 1)
    /\ schema \in (IF inst = Absent THEN {"missing_table"} ELSE Health)
    /\ sg \in {None, 1}
    /\ sgCount = sg
    /\ sgLive = sg
    /\ sgIngress \in (IF sg = None THEN {0} ELSE {0, 1})
    /\ pc = "idle"
    /\ cmd = "none"
    /\ retpc = "none"
    /\ security_group_id = None
    /\ status = "none"
    /\ rm_status = "none"
    /\ host = 0
    /\ database_health_status = "none"
    /\ otherPc = "idle"
    /\ otherInst = Absent
    /\ otherSgid = None
    /\ rds_host = 0
    /\ ec2_host_name = "none"
    /\ rds_vals = NoFile
    /\ uploaded = NoFile
    /\ urls = "none"
    /\ createReqs = 0
    /\ delReqs = 0
    /\ sgDelReqs = 0
    /\ faulted = FALSE
    /\ start = [inst |-> inst, class |-> instClass, gen |-> instGen, schema |-> schema]
    /\ checks = NoChecks
    /\ rm = NoRm
    /\ sgPath = "none"
    /\ result = "none"
    /\ sgAuthReqs = sgIngress
    /\ prevSgid = None

Init ==
    /\ InitStack
    /\ call = NoCall

----------------------------------------------------------------------------
\* Entry of an invocation: the locals of the called function are fresh.
Begin(c, first) ==
    /\ pc \in {"idle", "done"}
    /\ pc' = first
    /\ cmd' = c
    /\ retpc' = "none"
    /\ security_group_id' = None
    /\ status' = "none"
    /\ rm_status' = "none"
    /\ host' = 0
    /\ database_health_status' = "none"
    /\ rds_host' = 0
    /\ ec2_host_name' = "none"
    /\ uploaded' = NoFile
    /\ urls' = "none"
    /\ createReqs' = 0
    /\ delReqs' = 0
    /\ sgDelReqs' = 0
    /\ faulted' = FALSE
    /\ start' = [inst |-> inst, class |-> instClass, gen |-> instGen, schema |-> schema]
    /\ checks' = NoChecks
    /\ rm' = NoRm
    /\ sgPath' = "none"
    /\ result' = "none"
    /\ prevSgid' = (IF sgPath \in {"created", "lookup"} THEN security_group_id ELSE prevSgid)
    /\ UNCHANGED <<rdsVars, sgVars, sgAuthReqs, rds_vals, otherVars, call>>

\* An exception leaves the invocation.
Raise(e) ==
    /\ pc' = "done"
    /\ result' = e

----------------------------------------------------------------------------
\* The provider's answers (its error codes) to the requests of the program.
EC2CreateSecurityGroup(g) == IF g = None THEN "ok" ELSE "InvalidGroup.Duplicate"
RDSCreateDBInstance(i) == IF i = Absent THEN "ok" ELSE "DBInstanceAlreadyExists"
RDSDeleteDBInstance(i) ==
    IF i = Absent THEN "DBInstanceNotFound"
    ELSE IF i = "deleting" THEN "InvalidDBInstanceState"
    ELSE "ok"
\* A group that is gone or that an instance of the other user is attached to is not deleted.
EC2DeleteSecurityGroup(id, attached) ==
    IF sg = None \/ sg # id THEN "InvalidGroup.NotFound"
    ELSE IF attached # Absent THEN "DependencyViolation"
    ELSE "ok"
\* db_instance['Endpoint']: the record of an available instance has the key.
EndpointPresent(st) == IF st = "available" THEN {TRUE} ELSE BOOLEAN

\* data_model: check_database_health and init_database.
check_database_health(s) == s
init_database(s) == IF s = "missing_table" THEN "healthy" ELSE s

----------------------------------------------------------------------------
\* Decisions of setup_rds.
SgErrorIsDuplicate_never(code) == FALSE
SgErrorIsDuplicate(code) == code = "InvalidGroup.Duplicate"
SgNext_always(path) == "sg_authorize"
SgNext(path) == IF path = "created" THEN "sg_authorize" ELSE "rds_create"
CreateErrorTolerated_never(code) == FALSE
CreateErrorTolerated(code) == code = "DBInstanceAlreadyExists"
ClassMismatch_always(c) == TRUE
ClassMismatch_never(c) == FALSE
ClassMismatch(c) == c # rds_db_instance_class
SetupNext(st) ==
    IF st = "deleting" THEN "poll_deleting"
    ELSE IF st = "creating" THEN "poll_creating"
    ELSE "read_endpoint"
PollDeletingFailed_fallthrough == "read_endpoint"
PollDeletingFailed == "rds_create"
PollCreatingNext(st) == IF st = "creating" THEN "poll_creating" ELSE "read_endpoint"
HealthAcceptable_inconsistent(h) == h \in {"missing_table", "healthy", "inconsistent_schema"}
HealthAcceptable(h) == h \in {"missing_table", "healthy"}
HealthFatal(h) == h \in {"inconsistent_schema", "unknown_error"}
\* Decisions of remove_rds_database.
RmDescribeFailed_delete == "rm_delete"
RmDescribeFailed == "rm_return"
RmNext_nodelete(st) == "rm_poll"
RmNext(st) == IF st = "deleting" THEN "rm_poll" ELSE "rm_delete"
RmPollNext_nowait(st) == "rm_return"
RmPollNext(st) == IF st = "deleting" THEN "rm_poll" ELSE "rm_return"

----------------------------------------------------------------------------
\* setup_rds: the security-group step.
SgCreate ==
    /\ pc = "sg_create"
    /\ \E fault \in BOOLEAN :
        LET code == IF fault THEN "UnclassifiedError" ELSE EC2CreateSecurityGroup(sg) IN
        IF code = "ok" THEN
            /\ sgCount < MaxGroups
            /\ sg' = sgCount + 1
            /\ sgCount' = sgCount + 1
            /\ sgLive' = sgLive + 1
            /\ sgIngress' = 0
            /\ sgAuthReqs' = 0
            /\ security_group_id' = sgCount + 1
            /\ sgPath' = "created"
            /\ pc' = SgNext("created")
            /\ faulted' = (faulted \/ fault)
        ELSE IF SgErrorIsDuplicate(code) THEN
            /\ pc' = "sg_lookup"
            /\ faulted' = (faulted \/ fault)
            /\ UNCHANGED <<sgVars, sgAuthReqs, security_group_id, sgPath>>
        ELSE
            /\ pc' = "rds_create"
            /\ sgPath' = "failed"
            /\ faulted' = (faulted \/ fault)
            /\ UNCHANGED <<sgVars, sgAuthReqs, security_group_id>>
    /\ UNCHANGED <<rdsVars, cmd, call, otherVars, awsVars, retpc, status, rm_status, host, database_health_status,
                   createReqs, delReqs, sgDelReqs, start, checks, rm, result, prevSgid>>

SgAuthorize ==
    /\ pc = "sg_authorize"
    /\ sgAuthReqs' = sgAuthReqs + 1
    /\ \E fault \in BOOLEAN :
        IF fault \/ sg # security_group_id
        THEN faulted' = TRUE /\ UNCHANGED sgIngress
        ELSE sgIngress' = sgIngress + 1 /\ UNCHANGED faulted
    /\ pc' = "rds_create"
    /\ UNCHANGED <<rdsVars, sg, sgCount, sgLive, cmd, call, otherVars, awsVars, retpc, localVars,
                   createReqs, delReqs, sgDelReqs, start, checks, rm, sgPath, result, prevSgid>>

SgLookup ==
    /\ pc = "sg_lookup"
    /\ \E fault \in BOOLEAN :
        IF fault \/ sg = None THEN
            /\ Raise("ClientError")
            /\ faulted' = TRUE
            /\ sgPath' = "lookup_failed"
            /\ UNCHANGED security_group_id
        ELSE
            /\ security_group_id' = sg
            /\ sgPath' = "lookup"
            /\ pc' = SgNext("lookup")
            /\ UNCHANGED <<faulted, result>>
    /\ UNCHANGED <<rdsVars, sgVars, cmd, call, otherVars, awsVars, retpc, status, rm_status, host, database_health_status,
                   createReqs, delReqs, sgDelReqs, start, checks, rm, sgAuthReqs, prevSgid>>

\* setup_rds: the provisioning loop.
RdsCreate ==
    /\ pc = "rds_create"
    /\ IF security_group_id = None THEN
            \* VpcSecurityGroupIds=[None] fails the parameter validation of the client
            /\ Raise("ParamValidationError")
            /\ UNCHANGED <<rdsVars, createReqs, checks, rm>>
       ELSE
            /\ createReqs' = createReqs + 1
            /\ checks' = [checks EXCEPT !.creates = @ + 1]
            /\ LET code == IF inst = Absent /\ sg # security_group_id
                           THEN "InvalidParameterValue"
                           ELSE RDSCreateDBInstance(inst) IN
               IF code = "ok" THEN
                    /\ instGen < MaxGen
                    /\ inst' = "creating"
                    /\ instClass' = rds_db_instance_class
                    /\ instGen' = instGen + 1
                    /\ schema' \in Health
                    /\ pc' = "rds_describe"
                    /\ UNCHANGED result
               ELSE IF CreateErrorTolerated(code) THEN
                    /\ pc' = "rds_describe"
                    /\ UNCHANGED <<rdsVars, result>>
               ELSE
                    /\ Raise("ClientError")
                    /\ UNCHANGED rdsVars
    /\ UNCHANGED <<sgVars, cmd, call, otherVars, awsVars, retpc, localVars,
                   delReqs, sgDelReqs, faulted, start, rm, sgPath, sgAuthReqs, prevSgid>>

RdsDescribe ==
    /\ pc = "rds_describe"
    /\ IF inst = Absent THEN
            /\ Raise("ClientError")
            /\ UNCHANGED <<retpc, status>>
       ELSE IF ClassMismatch(instClass) THEN
            /\ pc' = "rm_describe"
            /\ retpc' = "rds_create"
            /\ UNCHANGED <<status, result>>
       ELSE
            /\ status' = inst
            /\ pc' = SetupNext(inst)
            /\ UNCHANGED <<retpc, result>>
    /\ UNCHANGED <<rdsVars, sgVars, cmd, call, otherVars, awsVars, security_group_id, rm_status, host,
                   database_health_status, createReqs, delReqs, sgDelReqs, faulted, start, checks, rm,
                   sgPath, sgAuthReqs, prevSgid>>

PollDeleting ==
    /\ pc = "poll_deleting"
    /\ IF inst = Absent THEN
            /\ pc' = PollDeletingFailed
            /\ UNCHANGED status
       ELSE
            /\ status' = inst
            /\ pc' = SetupNext(inst)
    /\ UNCHANGED <<rdsVars, sgVars, cmd, call, otherVars, awsVars, retpc, security_group_id, rm_status, host,
                   database_health_status, histVars>>

PollCreating ==
    /\ pc = "poll_creating"
    /\ IF inst = Absent THEN
            /\ Raise("ClientError")
            /\ UNCHANGED status
       ELSE
            /\ status' = inst
            /\ pc' = PollCreatingNext(inst)
            /\ UNCHANGED result
    /\ UNCHANGED <<rdsVars, sgVars, cmd, call, otherVars, awsVars, retpc, security_group_id, rm_status, host,
                   database_health_status, createReqs, delReqs, sgDelReqs, faulted, start, checks, rm,
                   sgPath, sgAuthReqs, prevSgid>>

ReadEndpoint ==
    /\ pc = "read_endpoint"
    /\ \E present \in EndpointPresent(status) :
        IF present THEN
            /\ host' = instGen
            /\ pc' = "check_health"
            /\ UNCHANGED result
        ELSE
            /\ Raise("KeyError")
            /\ UNCHANGED host
    /\ UNCHANGED <<rdsVars, sgVars, cmd, call, otherVars, awsVars, retpc, security_group_id, status, rm_status,
                   database_health_status, createReqs, delReqs, sgDelReqs, faulted, start, checks, rm,
                   sgPath, sgAuthReqs, prevSgid>>

CheckHealth ==
    /\ pc = "check_health"
    /\ LET h == check_database_health(schema) IN
        /\ database_health_status' = h
        /\ checks' = [last |-> host, prev |-> checks.last, dels |-> 0, creates |-> 0,
                      pdels |-> checks.dels, pcreates |-> checks.creates, inited |-> FALSE]
        /\ IF HealthAcceptable(h) THEN
                pc' = "init_database" /\ UNCHANGED retpc
           ELSE IF HealthFatal(h) THEN
                pc' = "rm_describe" /\ retpc' = "rds_create"
           ELSE
                pc' = "ready" /\ UNCHANGED retpc
    /\ UNCHANGED <<rdsVars, sgVars, cmd, call, otherVars, awsVars, security_group_id, status, rm_status, host,
                   createReqs, delReqs, sgDelReqs, faulted, start, rm, sgPath, result, sgAuthReqs, prevSgid>>

InitDatabase ==
    /\ pc = "init_database"
    /\ schema' = init_database(schema)
    /\ checks' = [checks EXCEPT !.inited = TRUE]
    /\ pc' = "ready"
    /\ UNCHANGED <<inst, instClass, instGen, sgVars, cmd, call, otherVars, awsVars, retpc, localVars,
                   createReqs, delReqs, sgDelReqs, faulted, start, rm, sgPath, result, sgAuthReqs, prevSgid>>

\* setup_rds returns host to setup_aws, its only caller, which goes on with it.
Ready ==
    /\ pc = "ready"
    /\ pc' = "get_ec2_details"
    /\ result' = "host"
    /\ rds_host' = host
    /\ UNCHANGED <<rdsVars, sgVars, cmd, call, otherVars, retpc, localVars, ec2_host_name, rds_vals, uploaded, urls,
                   createReqs, delReqs, sgDelReqs, faulted, start, checks, rm, sgPath, sgAuthReqs, prevSgid>>

----------------------------------------------------------------------------
\* setup_aws after setup_rds: the deployment target, then setup_ec2_server_api.
GetEc2Details ==
    /\ pc = "get_ec2_details"
    /\ \E h \in Ec2Hosts : ec2_host_name' = h
    /\ pc' = "write_config"
    /\ UNCHANGED <<rdsVars, sgVars, cmd, call, otherVars, retpc, localVars, rds_host, rds_vals, uploaded, urls, histVars>>

\* The rds_host line of config_string.
config_string_literal(h) == [exists |-> TRUE, rds_host |-> 0]
config_string(h) == [exists |-> TRUE, rds_host |-> h]

WriteConfig ==
    /\ pc = "write_config"
    /\ rds_vals' = config_string(rds_host)
    /\ pc' = "transfer"
    /\ UNCHANGED <<rdsVars, sgVars, cmd, call, otherVars, retpc, localVars, rds_host, ec2_host_name, uploaded, urls, histVars>>

\* The session, the copies (rds_vals.txt is the last file put) and the restart.
Transfer ==
    /\ pc = "transfer"
    /\ uploaded' = rds_vals
    /\ pc' = "clean_up"
    /\ UNCHANGED <<rdsVars, sgVars, cmd, call, otherVars, retpc, localVars, rds_host, ec2_host_name, rds_vals, urls, histVars>>

\* should_clean_up_after_upload has its default in setup_aws; then the urls are returned.
CleanUp ==
    /\ pc = "clean_up"
    /\ rds_vals' = NoFile
    /\ urls' = ec2_host_name
    /\ pc' = "done"
    /\ UNCHANGED <<rdsVars, sgVars, cmd, call, otherVars, retpc, localVars, rds_host, ec2_host_name, uploaded, histVars>>

----------------------------------------------------------------------------
\* remove_rds_database, called by setup_rds (retpc is where it returns to) or by itself.
RmDescribe ==
    /\ pc = "rm_describe"
    /\ rm' = [first |-> inst, dels |-> 0]
    /\ IF inst = Absent THEN
            /\ pc' = RmDescribeFailed
            /\ UNCHANGED rm_status
       ELSE
            /\ rm_status' = inst
            /\ pc' = RmNext(inst)
    /\ UNCHANGED <<rdsVars, sgVars, cmd, call, otherVars, awsVars, retpc, security_group_id, status, host,
                   database_health_status, createReqs, delReqs, sgDelReqs, faulted, start, checks,
                   sgPath, result, sgAuthReqs, prevSgid>>

RmDelete ==
    /\ pc = "rm_delete"
    /\ delReqs' = delReqs + 1
    /\ UNCHANGED sgDelReqs
    /\ checks' = [checks EXCEPT !.dels = @ + 1]
    /\ rm' = [rm EXCEPT !.dels = @ + 1]
    /\ IF RDSDeleteDBInstance(inst) = "ok" THEN
            /\ inst' = "deleting"
            /\ pc' = "rm_describe2"
       ELSE
            /\ pc' = "rm_return"
            /\ UNCHANGED inst
    /\ UNCHANGED <<instClass, instGen, schema, sgVars, cmd, call, otherVars, awsVars, retpc, localVars,
                   createReqs, faulted, start, sgPath, result, sgAuthReqs, prevSgid>>

RmDescribe2 ==
    /\ pc = "rm_describe2"
    /\ IF inst = Absent THEN
            /\ pc' = "rm_return"
            /\ UNCHANGED rm_status
       ELSE
            /\ rm_status' = inst
            /\ pc' = RmPollNext(inst)
    /\ UNCHANGED <<rdsVars, sgVars, cmd, call, otherVars, awsVars, retpc, security_group_id, status, host,
                   database_health_status, histVars>>

RmPoll ==
    /\ pc = "rm_poll"
    /\ IF inst = Absent THEN
            /\ pc' = "rm_return"
            /\ UNCHANGED rm_status
       ELSE
            /\ rm_status' = inst
            /\ pc' = RmPollNext(inst)
    /\ UNCHANGED <<rdsVars, sgVars, cmd, call, otherVars, awsVars, retpc, security_group_id, status, host,
                   database_health_status, histVars>>

RmReturn ==
    /\ pc = "rm_return"
    /\ IF retpc = "none"
       THEN pc' = "done" /\ result' = "returned"
       ELSE pc' = retpc /\ UNCHANGED result
    /\ retpc' = "none"
    /\ UNCHANGED <<rdsVars, sgVars, cmd, call, otherVars, awsVars, localVars,
                   createReqs, delReqs, sgDelReqs, faulted, start, checks, rm, sgPath, sgAuthReqs, prevSgid>>

----------------------------------------------------------------------------
\* clean_aws: the database, then the security group, then the role.
CleanNext(st) == IF st = "deleting" THEN "clean_poll" ELSE "clean_sg_lookup"

CleanDelete ==
    /\ pc = "clean_delete"
    /\ delReqs' = delReqs + 1
    /\ UNCHANGED sgDelReqs
    /\ IF RDSDeleteDBInstance(inst) = "ok" THEN
            /\ inst' = "deleting"
            /\ pc' = "clean_describe"
       ELSE
            /\ pc' = "clean_sg_lookup"
            /\ UNCHANGED inst
    /\ UNCHANGED <<instClass, instGen, schema, sgVars, cmd, call, otherVars, awsVars, retpc, localVars,
                   createReqs, faulted, start, checks, rm, sgPath, result, sgAuthReqs, prevSgid>>

CleanPoll ==
    /\ pc \in {"clean_describe", "clean_poll"}
    /\ IF inst = Absent THEN
            /\ pc' = "clean_sg_lookup"
            /\ UNCHANGED status
       ELSE
            /\ status' = inst
            /\ pc' = CleanNext(inst)
    /\ UNCHANGED <<rdsVars, sgVars, cmd, call, otherVars, awsVars, retpc, security_group_id, rm_status, host,
                   database_health_status, histVars>>

CleanSgLookup ==
    /\ pc = "clean_sg_lookup"
    /\ \E fault \in BOOLEAN :
        IF fault \/ sg = None THEN
            /\ pc' = "clean_iam"
            /\ faulted' = (faulted \/ fault)
            /\ UNCHANGED security_group_id
        ELSE
            /\ security_group_id' = sg
            /\ pc' = "clean_sg_delete"
            /\ UNCHANGED faulted
    /\ UNCHANGED <<rdsVars, sgVars, cmd, call, otherVars, awsVars, retpc, status, rm_status, host, database_health_status,
                   createReqs, delReqs, sgDelReqs, start, checks, rm, sgPath, result, sgAuthReqs, prevSgid>>

CleanSgDelete ==
    /\ pc = "clean_sg_delete"
    /\ \E fault \in BOOLEAN :
        IF fault \/ EC2DeleteSecurityGroup(security_group_id, otherInst) # "ok" THEN
            /\ faulted' = TRUE
            /\ UNCHANGED <<sg, sgIngress, sgLive, sgAuthReqs, prevSgid>>
        ELSE
            /\ sg' = None
            /\ sgIngress' = 0
            /\ sgLive' = sgLive - 1
            /\ sgAuthReqs' = 0
            /\ prevSgid' = None
            /\ UNCHANGED faulted
    /\ sgDelReqs' = sgDelReqs + 1
    /\ pc' = "clean_iam"
    /\ UNCHANGED <<rdsVars, sgCount, cmd, call, otherVars, awsVars, retpc, localVars,
                   createReqs, delReqs, start, checks, rm, sgPath, result>>

\* iam_role_name is not defined in the module: evaluating it raises NameError.
CleanIam ==
    /\ pc = "clean_iam"
    /\ Raise("NameError")
    /\ UNCHANGED <<rdsVars, sgVars, cmd, call, otherVars, awsVars, retpc, localVars,
                   createReqs, delReqs, sgDelReqs, faulted, start, checks, rm, sgPath, sgAuthReqs, prevSgid>>

----------------------------------------------------------------------------
\* The provider: the instance changes status on its own.
ProviderCreated ==
    /\ inst = "creating"
    /\ inst' \in {"available", "backing-up"}
    /\ UNCHANGED <<instClass, instGen, schema, sgVars, pc, cmd, call, otherVars, awsVars, retpc, localVars, histVars>>

ProviderSettled ==
    /\ inst \in {"backing-up", "modifying"}
    /\ inst' = "available"
    /\ UNCHANGED <<instClass, instGen, schema, sgVars, pc, cmd, call, otherVars, awsVars, retpc, localVars, histVars>>

ProviderDeleted ==
    /\ inst = "deleting"
    /\ inst' = Absent
    /\ instClass' = rds_db_instance_class
    /\ schema' = "missing_table"
    /\ UNCHANGED <<instGen, sgVars, pc, cmd, call, otherVars, awsVars, retpc, localVars, histVars>>

----------------------------------------------------------------------------
StartSetupRds == Begin("setup_rds", "sg_create")
StartRemoveRds == Begin("remove_rds_database", "rm_describe")
StartCleanAws == Begin("clean_aws", "clean_delete")

Next ==
    \/ StartSetupRds
    \/ StartRemoveRds
    \/ StartCleanAws
    \/ SgCreate
    \/ SgAuthorize
    \/ SgLookup
    \/ RdsCreate
    \/ RdsDescribe
    \/ PollDeleting
    \/ PollCreating
    \/ ReadEndpoint
    \/ CheckHealth
    \/ InitDatabase
    \/ Ready
    \/ GetEc2Details
    \/ WriteConfig
    \/ Transfer
    \/ CleanUp
    \/ RmDescribe
    \/ RmDelete
    \/ RmDescribe2
    \/ RmPoll
    \/ RmReturn
    \/ CleanDelete
    \/ CleanPoll
    \/ CleanSgLookup
    \/ CleanSgDelete
    \/ CleanIam
    \/ ProviderCreated
    \/ ProviderSettled
    \/ ProviderDeleted

Spec == Init /\ [][Next]_vars

----------------------------------------------------------------------------
\* Two users on one account. The names of the module constants: the instance
\* identifier ends in the user's name, the security-group name does not.
Users == {"me", "other"}
rds_db_instance_identifier(u) == <<"parlai-mturk-db-", u>>
rds_security_group_name(u) == <<"parlai-mturk-db-security-group">>
\* Requests of the two users that carry the same name reach the same resource.
InstanceShared == rds_db_instance_identifier("me") = rds_db_instance_identifier("other")
GroupShared == rds_security_group_name("me") = rds_security_group_name("other")

\* The other user's setup_rds: the security-group step on the group of that name.
OtherSgCreate ==
    /\ otherPc = "idle"
    /\ GroupShared
    /\ IF EC2CreateSecurityGroup(sg) = "ok" THEN
            /\ sgCount < MaxGroups
            /\ sg' = sgCount + 1
            /\ sgCount' = sgCount + 1
            /\ sgLive' = sgLive + 1
            /\ sgIngress' = 0
            /\ sgAuthReqs' = 0
            /\ otherSgid' = sgCount + 1
            /\ otherPc' = "o_sg_authorize"
       ELSE
            /\ otherSgid' = sg
            /\ otherPc' = "o_rds_create"
            /\ UNCHANGED <<sgVars, sgAuthReqs>>
    /\ UNCHANGED <<rdsVars, pc, cmd, call, retpc, localVars, awsVars, otherInst,
                   createReqs, delReqs, sgDelReqs, faulted, start, checks, rm, sgPath, result, prevSgid>>

OtherSgAuthorize ==
    /\ otherPc = "o_sg_authorize"
    /\ GroupShared
    /\ IF sg = otherSgid
       THEN sgIngress' = sgIngress + 1 /\ sgAuthReqs' = sgAuthReqs + 1
       ELSE UNCHANGED <<sgIngress, sgAuthReqs>>
    /\ otherPc' = "o_rds_create"
    /\ UNCHANGED <<rdsVars, sg, sgCount, sgLive, pc, cmd, call, retpc, localVars, awsVars, otherInst, otherSgid,
                   createReqs, delReqs, sgDelReqs, faulted, start, checks, rm, sgPath, result, prevSgid>>

\* The other user's instance has its own identifier and is attached to the group.
OtherRdsCreate ==
    /\ otherPc = "o_rds_create"
    /\ ~InstanceShared
    /\ otherInst' = (IF otherInst = Absent /\ sg # None /\ sg = otherSgid THEN "available" ELSE otherInst)
    /\ otherSgid' = None
    /\ otherPc' = "idle"
    /\ UNCHANGED <<rdsVars, sgVars, pc, cmd, call, retpc, localVars, awsVars, histVars>>

\* The other user's clean_aws: its instance, then the group of that name.
OtherCleanDelete ==
    /\ otherPc = "idle"
    /\ ~InstanceShared
    /\ otherInst' = Absent
    /\ otherPc' = "o_clean_sg"
    /\ UNCHANGED <<rdsVars, sgVars, pc, cmd, call, retpc, localVars, awsVars, otherSgid, histVars>>

OtherCleanSgDelete ==
    /\ otherPc = "o_clean_sg"
    /\ GroupShared
    /\ IF EC2DeleteSecurityGroup(sg, inst) = "ok" THEN
            /\ sg' = None
            /\ sgIngress' = 0
            /\ sgLive' = sgLive - 1
            /\ sgAuthReqs' = 0
       ELSE UNCHANGED <<sg, sgIngress, sgLive, sgAuthReqs>>
    /\ otherPc' = "idle"
    /\ UNCHANGED <<rdsVars, sgCount, pc, cmd, call, retpc, localVars, awsVars, otherInst, otherSgid,
                   createReqs, delReqs, sgDelReqs, faulted, start, checks, rm, sgPath, result, prevSgid>>

\* Both users start on an account without the group; this user's instance of an
\* earlier deployment is gone or on its way out.
InitUsers ==
    /\ Init
    /\ inst \in {Absent, "deleting"}
    /\ instClass = rds_db_instance_class
    /\ sg = None

NextUsers ==
    \/ Next
    \/ OtherSgCreate
    \/ OtherSgAuthorize
    \/ OtherRdsCreate
    \/ OtherCleanDelete
    \/ OtherCleanSgDelete

SpecUsers == InitUsers /\ [][NextUsers]_vars

----------------------------------------------------------------------------
\* calculate_mturk_cost and check_mturk_balance. Rewards and bonus amounts are in
\* cents and a cost is in hundredths of a cent, so that the factors 1.2 and 1.44 are
\* the integers 120 and 144; balances are in dollars and compared in tenths.
MaxHits == 2
MaxAssignments == 10
MaxRequired == 5
MaxBalance == 7
Rewards == {5, 50}
Amounts == {0, 100, 10000}
stackVars == <<rdsVars, sgVars, pc, cmd, retpc, localVars, awsVars, otherVars, histVars>>

PaymentOpts ==
    [type : {"reward"}, num_hits : 1..MaxHits, num_assignments : 1..MaxAssignments, reward : Rewards]
        \cup [type : {"bonus"}, amount : Amounts]
        \cup [type : {"refund"}]

\* HITs with 10 or more assignments are charged the additional fee.
SurchargeApplies_above(num_assignments) == num_assignments > 10
SurchargeApplies(num_assignments) == num_assignments >= 10

calculate_mturk_cost(payment_opt) ==
    IF payment_opt.type = "reward" THEN
        LET total_cost == payment_opt.num_hits * payment_opt.num_assignments * payment_opt.reward * 120
        IN  IF SurchargeApplies(payment_opt.num_assignments)
            THEN (total_cost * 12) \div 10
            ELSE total_cost
    ELSE IF payment_opt.type = "bonus" THEN payment_opt.amount * 120
    ELSE 0

CalculateMturkCost ==
    /\ call.fn = "calculate_mturk_cost"
    /\ call.pc = "entry"
    /\ call' = [fn |-> call.fn, pc |-> "returned", payment_opt |-> call.payment_opt,
                ret |-> calculate_mturk_cost(call.payment_opt)]
    /\ UNCHANGED stackVars

\* check_mturk_balance: the balance read and what its errors lead to. The account
\* that is not linked to MTurk answers RequestError: the message is printed and quit()
\* ends the process; any other ClientError is raised again.
BalanceErrorFatal_never(code) == FALSE
BalanceErrorFatal(code) == code = "RequestError"

GetAccountBalance ==
    /\ call.fn = "check_mturk_balance"
    /\ call.pc = "get_account_balance"
    /\ \E code \in {"ok", "RequestError", "ServiceFault"}, b \in 0..MaxBalance :
        call' = IF code = "ok" THEN
                    [fn |-> call.fn, pc |-> "compare", balance_needed |-> call.balance_needed,
                     is_sandbox |-> call.is_sandbox, answer |-> code, user_balance |-> b]
                ELSE IF BalanceErrorFatal(code) THEN
                    [fn |-> call.fn, pc |-> "quit", balance_needed |-> call.balance_needed,
                     is_sandbox |-> call.is_sandbox, answer |-> code]
                ELSE
                    [fn |-> call.fn, pc |-> "raised", balance_needed |-> call.balance_needed,
                     is_sandbox |-> call.is_sandbox, answer |-> code, ret |-> "ClientError"]
    /\ UNCHANGED stackVars

\* balance_needed * 1.2, the comparison, and the message of the insufficient branch:
\* a str concatenated with the float balance_needed raises TypeError before return False.
CompareBalance ==
    /\ call.fn = "check_mturk_balance"
    /\ call.pc = "compare"
    /\ LET balance_needed == call.balance_needed * 12
           user_balance == call.user_balance * 10
       IN  call' = IF user_balance < balance_needed
                   THEN [call EXCEPT !.pc = "raised"] @@ [ret |-> "TypeError"]
                   ELSE [call EXCEPT !.pc = "returned"] @@ [ret |-> "True"]
    /\ UNCHANGED stackVars

Calls ==
    [fn : {"calculate_mturk_cost"}, pc : {"entry"}, payment_opt : PaymentOpts]
        \cup [fn : {"check_mturk_balance"}, pc : {"get_account_balance"},
              balance_needed : 0..MaxRequired, is_sandbox : BOOLEAN]

InitEconomics ==
    /\ InitStack
    /\ inst = Absent
    /\ sg = None
    /\ call \in Calls

NextEconomics ==
    \/ CalculateMturkCost
    \/ GetAccountBalance
    \/ CompareBalance

SpecEconomics == InitEconomics /\ [][NextEconomics]_vars

----------------------------------------------------------------------------
\* setup_ec2_server_api step by step. A path is a string, here the sequence of its
\* pieces: "/" is the separator, "html" the four letters, and "a" and "." stand for
\* text that has no part of "html" in it.
MaxPathLen == 4
PathPieces == {"/", "html", "a", "."}
Paths == UNION {[1..n -> PathPieces] : n \in 1..MaxPathLen}
parent_dir == <<"/", "a">>
\* hit_config.json, data_model.py and a page of the html directory.
generic_files_to_copy ==
    << parent_dir \o <<"/", "hit_config.json">>,
       parent_dir \o <<"/", "data_model.py">>,
       parent_dir \o <<"/", "html", "/", "a", ".", "html">> >>
dest_path == "/var/www/demoapp/"

\* file_src.split('/')
RECURSIVE split(_)
split(str) ==
    IF str = <<>> THEN << <<>> >>
    ELSE LET rest == split(Tail(str)) IN
         IF Head(str) = "/" THEN << <<>> >> \o rest
         ELSE << <<Head(str)>> \o Head(rest) >> \o Tail(rest)

\* 'html' in file_src
html_in(file_src) == \E i \in 1..Len(file_src) : file_src[i] = "html"

file_dest(file_src) ==
    LET parts == split(file_src)
        filename == parts[Len(parts)]
    IN  IF html_in(file_src)
        THEN [dir |-> <<dest_path, "html/">>, filename |-> filename]
        ELSE [dir |-> <<dest_path>>, filename |-> filename]

PublishCalls ==
    [fn : {"setup_ec2_server_api"}, pc : {"render"},
     rds_host : 1..2, task_files_to_copy : {<<p>> : p \in Paths}, ec2_host_name : Ec2Hosts,
     should_clean_up_after_upload : BOOLEAN,
     local : {{}, {"hit_config.json"}},
     rds_vals : {0}, files_to_copy : {<<>>}, puts : {<<>>},
     ssh : {"none"}, sftp : {"none"}, restarts : {0}, ret : {<<>>}]

RenderConfig ==
    /\ call.fn = "setup_ec2_server_api"
    /\ call.pc = "render"
    /\ call' = [call EXCEPT !.rds_vals = call.rds_host,
                            !.local = @ \cup {"rds_vals.txt"},
                            !.pc = "connect"]
    /\ UNCHANGED stackVars

SshConnect ==
    /\ call.fn = "setup_ec2_server_api"
    /\ call.pc = "connect"
    /\ \E ok \in BOOLEAN :
        call' = IF ok THEN [call EXCEPT !.ssh = "open", !.pc = "open_sftp"]
                ELSE [call EXCEPT !.pc = "raised"]
    /\ UNCHANGED stackVars

OpenSftp ==
    /\ call.fn = "setup_ec2_server_api"
    /\ call.pc = "open_sftp"
    /\ call' = [call EXCEPT !.sftp = "open",
                            !.files_to_copy = call.task_files_to_copy \o generic_files_to_copy
                                                \o << <<"rds_vals.txt">> >>,
                            !.pc = "put"]
    /\ UNCHANGED stackVars

\* One round of the for loop; a local file that is missing or a broken channel raises.
PutFile ==
    /\ call.fn = "setup_ec2_server_api"
    /\ call.pc = "put"
    /\ Len(call.puts) < Len(call.files_to_copy)
    /\ LET file_src == call.files_to_copy[Len(call.puts) + 1]
           parts == split(file_src)
           missing == parts[Len(parts)] = <<"hit_config.json">> /\ "hit_config.json" \notin call.local
       IN  \E ok \in BOOLEAN :
            call' = IF ok /\ ~missing
                    THEN [call EXCEPT !.puts = Append(@, [src |-> file_src, dest |-> file_dest(file_src)])]
                    ELSE [call EXCEPT !.pc = "raised"]
    /\ UNCHANGED stackVars

\* The four exec_command calls; none of them waits for the command to end.
Restart ==
    /\ call.fn = "setup_ec2_server_api"
    /\ call.pc = "put"
    /\ Len(call.puts) = Len(call.files_to_copy)
    /\ call' = [call EXCEPT !.restarts = @ + 1, !.pc = "close"]
    /\ UNCHANGED stackVars

CloseSession ==
    /\ call.fn = "setup_ec2_server_api"
    /\ call.pc = "close"
    /\ call' = [call EXCEPT !.sftp = "closed", !.ssh = "closed", !.pc = "clean_up"]
    /\ UNCHANGED stackVars

ShouldRemove_never(should_clean_up_after_upload) == FALSE
ShouldRemove(should_clean_up_after_upload) == should_clean_up_after_upload

RemoveArtifacts ==
    /\ call.fn = "setup_ec2_server_api"
    /\ call.pc = "clean_up"
    /\ call' = IF ShouldRemove(call.should_clean_up_after_upload)
               THEN [call EXCEPT !.local = @ \ {"rds_vals.txt", "hit_config.json"}, !.pc = "return"]
               ELSE [call EXCEPT !.pc = "return"]
    /\ UNCHANGED stackVars

endpoint_url_plain(hostname, api) == <<"http://", hostname, "/", api>>
endpoint_url(hostname, api) == <<"https://", hostname, "/", api>>

ReturnUrls ==
    /\ call.fn = "setup_ec2_server_api"
    /\ call.pc = "return"
    /\ call' = [call EXCEPT !.ret = <<endpoint_url(call.ec2_host_name, "html"),
                                      endpoint_url(call.ec2_host_name, "json")>>,
                            !.pc = "returned"]
    /\ UNCHANGED stackVars

InitPublish ==
    /\ InitStack
    /\ inst = Absent
    /\ sg = None
    /\ call \in PublishCalls

NextPublish ==
    \/ RenderConfig
    \/ SshConnect
    \/ OpenSftp
    \/ PutFile
    \/ Restart
    \/ CloseSession
    \/ RemoveArtifacts
    \/ ReturnUrls

SpecPublish == InitPublish /\ [][NextPublish]_vars

----------------------------------------------------------------------------
\* create_hit_with_hit_type. A url is the sequence of its pieces: "&" is the
\* ampersand, "amp;" those four characters, "a" and "?" any other text.
MaxUrlLen == 4
UrlPieces == {"&", "amp;", "a", "?"}
Urls == UNION {[1..n -> UrlPieces] : n \in 1..MaxUrlLen}
HitTypeIds == {"T1", "T2"}

\* page_url.replace('&', '&amp;')
RECURSIVE replace_amp(_)
replace_amp(page_url) ==
    IF page_url = <<>> THEN <<>>
    ELSE (IF Head(page_url) = "&" THEN <<"&", "amp;">> ELSE <<Head(page_url)>>)
            \o replace_amp(Tail(page_url))

\* The client of the sandbox, replaced by the client of the region when not is_sandbox.
mturk_endpoint(is_sandbox) ==
    IF is_sandbox THEN "https://mturk-requester-sandbox.us-east-1.amazonaws.com"
    ELSE "region default"

preview_domain_sandbox(is_sandbox) == "https://workersandbox.mturk.com"
preview_domain(is_sandbox) ==
    IF is_sandbox THEN "https://workersandbox.mturk.com" ELSE "https://www.mturk.com"

ListingCalls ==
    [fn : {"create_hit_with_hit_type"}, pc : {"entry"},
     page_url : Urls, hit_type_id : HitTypeIds, num_assignments : {1, 10}, is_sandbox : BOOLEAN,
     ExternalURL : {<<>>}, endpoint : {"none"}, posted : {"none"}, ret : {<<>>}]

BuildQuestion ==
    /\ call.fn = "create_hit_with_hit_type"
    /\ call.pc = "entry"
    /\ call' = [call EXCEPT !.ExternalURL = replace_amp(call.page_url),
                            !.endpoint = mturk_endpoint(call.is_sandbox),
                            !.pc = "create_hit"]
    /\ UNCHANGED stackVars

\* The post; the link is built from the HITTypeId of the response.
CreateHit ==
    /\ call.fn = "create_hit_with_hit_type"
    /\ call.pc = "create_hit"
    /\ \E ok \in BOOLEAN, id \in HitTypeIds :
        call' = IF ok
                THEN [call EXCEPT !.posted = call.endpoint,
                                  !.ret = <<preview_domain(call.is_sandbox), "/mturk/preview?groupId=", id>>,
                                  !.pc = "returned"]
                ELSE [call EXCEPT !.pc = "raised"]
    /\ UNCHANGED stackVars

InitListing ==
    /\ InitStack
    /\ inst = Absent
    /\ sg = None
    /\ call \in ListingCalls

NextListing ==
    \/ BuildQuestion
    \/ CreateHit

SpecListing == InitListing /\ [][NextListing]_vars

----------------------------------------------------------------------------
\* The worlds of the integration test, driven by the loop of run_conversation:
\* while not world.episode_done(): world.parley().
MaxAgents == 3
MaxParleys == 2
Texts == {"a", "b"}
\* The names bound at the top level of worlds.py; TEST_ID, TEST_TEXT_1 and TEST_TEXT_2
\* are bound in the class bodies only, where a method does not look a bare name up.
ModuleNames ==
    {"validate", "MTurkOnboardWorld", "MTurkTaskWorld", "TestOnboardWorld", "TestSoloWorld",
     "TestDuoWorld"}
NameBound(name) == name \in ModuleNames
\* parlai.core.worlds.validate hands the act on.
validate(act) == act

SoloWorlds ==
    [fn : {"TestSoloWorld"}, pc : {"loop"}, mturk_agent : {1}, episodeDone : {FALSE},
     turn_index : {-1}, observed : {<<>>}, responses : {<<>>}, parleys : {0}, error : {"none"}]

DuoWorlds ==
    UNION {[fn : {"TestDuoWorld"}, pc : {"loop"}, agents : {n},
            acts : {[i \in 1..n |-> "None"]}, episodeDone : {FALSE}, index : {0},
            observed : {[i \in 1..n |-> <<>>]}, acted : {<<>>}, parleys : {0}] : n \in 2..MaxAgents}

\* run_conversation: the loop around parley.
WorldLoop ==
    /\ call.fn \in {"TestSoloWorld", "TestDuoWorld"}
    /\ call.pc = "loop"
    /\ IF call.episodeDone
       THEN call' = [call EXCEPT !.pc = "finished"]
       ELSE /\ call.parleys < MaxParleys
            /\ call' = [call EXCEPT !.pc = "parley", !.parleys = @ + 1]
    /\ UNCHANGED stackVars

\* TestSoloWorld.parley, the answer of the worker being any text.
SoloParley ==
    /\ call.fn = "TestSoloWorld"
    /\ call.pc = "parley"
    /\ LET turn_index == (call.turn_index + 1) % 2
           ad == [episode_done |-> FALSE, id |-> "SYSTEM"]
       IN  \E response \in Texts :
            call' =
                IF turn_index = 0 THEN
                    IF NameBound("TEST_TEXT_1") THEN
                        [call EXCEPT !.turn_index = turn_index,
                                     !.observed = Append(@, validate(ad @@ [text |-> "FIRST_MESSAGE"])),
                                     !.responses = Append(@, response),
                                     !.pc = "loop"]
                    ELSE [call EXCEPT !.turn_index = turn_index, !.pc = "raised", !.error = "NameError"]
                ELSE
                    IF NameBound("TEST_TEXT_2") THEN
                        [call EXCEPT !.turn_index = turn_index,
                                     !.observed = Append(@, validate([ad EXCEPT !.episode_done = TRUE]
                                                                        @@ [text |-> "SECOND_MESSAGE"])),
                                     !.responses = Append(@, response),
                                     !.episodeDone = TRUE,
                                     !.pc = "loop"]
                    ELSE [call EXCEPT !.turn_index = turn_index, !.pc = "raised", !.error = "NameError"]
    /\ UNCHANGED stackVars

\* TestDuoWorld.parley, one round of its for loop: the agent at index acts, the
\* others observe; the loop runs to the end of the list.
DuoAct ==
    /\ call.fn = "TestDuoWorld"
    /\ call.pc = "parley"
    /\ LET index == call.index + 1 IN
       \E text \in Texts, episode_done \in BOOLEAN :
        LET act == [id |-> index, text |-> text, episode_done |-> episode_done] IN
        call' = [call EXCEPT
                    !.acts[index] = act,
                    !.acted = Append(@, index),
                    !.episodeDone = (IF act.episode_done THEN TRUE ELSE @),
                    !.observed = [other_agent \in 1..call.agents |->
                                    IF other_agent # index
                                    THEN Append(call.observed[other_agent], validate(act))
                                    ELSE call.observed[other_agent]],
                    !.index = (IF index = call.agents THEN 0 ELSE index),
                    !.pc = (IF index = call.agents THEN "loop" ELSE "parley")]
    /\ UNCHANGED stackVars

InitWorlds ==
    /\ InitStack
    /\ inst = Absent
    /\ sg = None
    /\ call \in SoloWorlds \cup DuoWorlds

NextWorlds ==
    \/ WorldLoop
    \/ SoloParley
    \/ DuoAct

SpecWorlds == InitWorlds /\ [][NextWorlds]_vars

TypeOK ==
    /\ inst \in Statuses \cup {Absent}
    /\ instClass \in InstanceClasses
    /\ instGen \in 0..MaxGen
    /\ schema \in Health
    /\ sg \in 0..MaxGroups
    /\ host \in 0..MaxGen
    /\ rds_host \in 0..MaxGen
    /\ call.fn \in {"none", "calculate_mturk_cost", "check_mturk_balance", "setup_ec2_server_api",
                  "create_hit_with_hit_type", "TestSoloWorld", "TestDuoWorld"}
    /\ otherPc \in {"idle", "o_sg_authorize", "o_rds_create", "o_clean_sg"}
    /\ otherInst \in {Absent, "available"}
    /\ otherSgid \in 0..MaxGroups
    /\ ec2_host_name \in Ec2Hosts \cup {"none"}
    /\ rds_vals \in {NoFile} \cup [exists : {TRUE}, rds_host : 0..MaxGen]
    /\ uploaded \in {NoFile} \cup [exists : {TRUE}, rds_host : 0..MaxGen]
    /\ urls \in Ec2Hosts \cup {"none"}

----------------------------------------------------------------------------
\* C1: setup_rds returns a host only after the health check of that host reported
\* healthy or missing_table and init_database was then run; init_database is never
\* run, and no host is returned, when the last health was inconsistent_schema or
\* unknown_error.
C1_HostOnlyAfterAcceptableHealth ==
    /\ (cmd = "setup_rds" /\ (pc = "ready" \/ result = "host")) =>
            /\ database_health_status \in {"healthy", "missing_table"}
            /\ host # 0
            /\ checks.last = host
            /\ checks.inited
    /\ (pc = "init_database" \/ checks.inited) =>
            database_health_status \in {"healthy", "missing_table"}
    /\ database_health_status \in {"inconsistent_schema", "unknown_error"} =>
            (result # "host" /\ pc \notin {"init_database", "ready"})

\* A run that found a bad schema, recreated the instance and returned its host.
C1_Witness ==
    /\ cmd = "setup_rds"
    /\ result = "host"
    /\ checks.prev # 0
    /\ checks.inited

\* C2: setup_rds reads the endpoint, checks the health and returns the host only of
\* an instance whose last observed status is available.
C2_EndpointOnlyWhenAvailable ==
    (/\ cmd = "setup_rds"
     /\ (pc \in {"check_health", "init_database", "ready"} \/ result = "host"))
        => status = "available"

\* C3: on a class mismatch setup_rds calls remove_rds_database and restarts from the
\* create step; it never reads the endpoint of, checks the health of or returns the
\* host of an instance whose class is not the desired class.
C3_ClassMismatchRecreates ==
    [][ /\ (/\ pc = "rds_describe" /\ pc' # pc
            /\ inst # Absent /\ instClass # rds_db_instance_class)
                => (pc' = "rm_describe" /\ retpc' = "rds_create" /\ UNCHANGED rdsVars)
        /\ (/\ cmd' = "setup_rds"
            /\ (pc' \in {"poll_deleting", "poll_creating", "read_endpoint", "check_health",
                         "init_database", "ready"} \/ result' = "host"))
                => (inst' = Absent \/ instClass' = rds_db_instance_class)
      ]_vars

\* A run that started on an instance of another class and returned a host.
C3_Witness ==
    /\ cmd = "setup_rds"
    /\ start.inst # Absent
    /\ start.class # rds_db_instance_class
    /\ rm.dels = 1
    /\ result = "host"
    /\ instClass = rds_db_instance_class

\* C4: between two consecutive health checks of one run there is exactly one
\* decommission-and-recreate cycle (one delete request, one create request, a new
\* instance): health is never evaluated again on the instance found inconsistent.
C4_OneRecreateBetweenChecks ==
    (cmd = "setup_rds" /\ checks.prev # 0) =>
        /\ checks.last # checks.prev
        /\ checks.pdels = 1
        /\ checks.pcreates = 1

\* A second health check of one run has happened.
C4_Witness ==
    /\ cmd = "setup_rds"
    /\ checks.prev # 0
    /\ checks.last = checks.prev + 1
    /\ pc \in {"init_database", "rm_describe"}

\* C5: an "already exists" answer to the create request is not an error, the run
\* goes on with the existing instance; a run that starts on an available instance of
\* the desired class with a healthy schema returns the host of that instance and
\* issues no delete request (when the provider returns no unclassified error).
C5_Reentrant ==
    [][ /\ (/\ pc = "rds_create" /\ pc' # pc
            /\ security_group_id # None /\ inst # Absent)
                => (pc' = "rds_describe" /\ UNCHANGED rdsVars)
        /\ (/\ cmd' = "setup_rds" /\ ~faulted'
            /\ start'.inst = "available"
            /\ start'.class = rds_db_instance_class
            /\ start'.schema = "healthy")
                => /\ delReqs' = 0
                   /\ instGen' = start'.gen
                   /\ pc' = "done" => (result' = "host" /\ host' = start'.gen)
      ]_vars

\* A run on a provisioned stack has returned the host of the existing instance.
C5_Witness ==
    /\ cmd = "setup_rds"
    /\ start.inst = "available"
    /\ start.class = rds_db_instance_class
    /\ start.schema = "healthy"
    /\ createReqs = 1
    /\ result = "host"
    /\ host = start.gen

\* C6: on status deleting setup_rds polls: while the status stays deleting it issues
\* no create and no delete request and keeps polling; when the poll fails because the
\* instance is gone it restarts from the create step; it never reads the endpoint of
\* or returns the host of an instance it last observed as deleting.
C6_DeletingIsPolled ==
    [][ /\ (/\ pc = "rds_describe" /\ pc' # pc
            /\ inst = "deleting" /\ instClass = rds_db_instance_class)
                => pc' = "poll_deleting"
        /\ pc = "poll_deleting" =>
                /\ createReqs' = createReqs
                /\ delReqs' = delReqs
                /\ inst = "deleting" => pc' = "poll_deleting"
                /\ (inst = Absent /\ pc' # pc) => pc' = "rds_create"
        /\ (/\ cmd' = "setup_rds"
            /\ (pc' \in {"read_endpoint", "check_health", "init_database", "ready"}
                    \/ result' = "host"))
                => status' # "deleting"
      ]_vars

\* A run that found the instance deleting, polled, recreated it and returned a host.
C6_Witness ==
    /\ cmd = "setup_rds"
    /\ start.inst = "deleting"
    /\ start.class = rds_db_instance_class
    /\ createReqs = 2
    /\ delReqs = 0
    /\ result = "host"

\* C7: every run of setup_rds to which the provider returns no unclassified error
\* ends by returning a host, from any initial state of the instance.
C7_EveryRunReturnsHost ==
    (cmd = "setup_rds" /\ pc = "done" /\ ~faulted) => result = "host"

\* C8: remove_rds_database on an instance that does not exist returns normally,
\* issues no delete request and leaves the provider unchanged.
C8_RemoveAbsentIsNoOp ==
    [][ /\ (pc = "rm_describe" /\ pc' # pc /\ inst = Absent)
                => (pc' = "rm_return" /\ delReqs' = delReqs /\ UNCHANGED <<rdsVars, sgVars>>)
        /\ (cmd' = "remove_rds_database" /\ start'.inst = Absent)
                => /\ delReqs' = 0
                   /\ inst' = Absent
                   /\ instGen' = start'.gen
                   /\ result' \in {"none", "returned"}
                   /\ UNCHANGED sgVars
      ]_vars

\* remove_rds_database has returned from a call that found no instance.
C8_Witness ==
    /\ cmd = "remove_rds_database"
    /\ start.inst = Absent
    /\ rm.first = Absent
    /\ pc = "done"
    /\ result = "returned"

\* C9: remove_rds_database issues no delete request when it finds the instance
\* deleting and exactly one when it finds it in any other status; when it returns
\* the instance is absent.
C9_RemoveLeavesAbsent ==
    /\ pc = "rm_return" =>
            /\ inst = Absent
            /\ rm.first = "deleting" => rm.dels = 0
            /\ rm.first \in Statuses \ {"deleting"} => rm.dels = 1
    /\ (cmd = "remove_rds_database" /\ pc = "done") => (inst = Absent /\ result = "returned")

\* remove_rds_database returns from a call that found the instance available.
C9_Witness ==
    /\ pc = "rm_return"
    /\ rm.first = "available"
    /\ rm.dels = 1
    /\ inst = Absent

\* C10: two security-group steps on the same group yield the same group id, and the
\* ingress rule is authorized once, by the step that created the group, never by a
\* step that found the group through the duplicate-name lookup.
C10_EnsureIdempotent ==
    /\ sgAuthReqs <= 1
    /\ sgIngress <= 1
    /\ pc = "sg_authorize" => sgPath = "created"
    /\ (cmd = "setup_rds" /\ sgPath \in {"created", "lookup"} /\ prevSgid # None)
            => (sgPath = "lookup" /\ security_group_id = prevSgid)

\* The second step found, by lookup, the group the first created and authorized.
C10_Witness ==
    /\ cmd = "setup_rds"
    /\ sgPath = "lookup"
    /\ prevSgid # None
    /\ security_group_id = prevSgid
    /\ sgAuthReqs = 1
    /\ sgIngress = 1
    /\ pc = "rds_create"

\* C11: at most one security group with the fixed name exists at any time; a
\* duplicate-name answer to the creation is treated as success (the step fails only
\* on an unclassified error) and the id used afterwards is the id of the existing group.
C11_OneGroupDuplicateIsSuccess ==
    /\ sgLive <= 1
    /\ (sgLive = 0) <=> (sg = None)
    /\ (cmd = "setup_rds" /\ sgPath = "failed") => faulted
    /\ (cmd = "setup_rds" /\ sgPath = "lookup") => (sg # None /\ security_group_id = sg)
    /\ (cmd = "setup_rds" /\ security_group_id # None) => security_group_id = sg

\* After a removal and a second creation, a later step found the second group by lookup.
C11_Witness ==
    /\ cmd = "setup_rds"
    /\ sgPath = "lookup"
    /\ sgCount = 2
    /\ sgLive = 1
    /\ security_group_id = 2
    /\ createReqs = 1

\* C12: the security-group step of clean_aws looks the group up and deletes it: when
\* the group is not found it issues no delete request, when it is found the group no
\* longer exists once the step has returned; in both cases no error leaves the step.
C12_GroupRemoveRemoves ==
    (cmd = "clean_aws" /\ pc \in {"clean_iam", "done"}) =>
        /\ security_group_id = None => sgDelReqs = 0
        /\ security_group_id # None => (sgDelReqs = 1 /\ sg = None)

\* C13: an unclassified provider error of a security-group request reaches the
\* caller: the invocation ends with that error and does not go on.
C13_UnclassifiedErrorsPropagate ==
    faulted => (pc = "done" /\ result = "ClientError")

\* C14: clean_aws attempts the security-group delete only once the database instance
\* is absent, whatever the status of the instance was when it started.
C14_TeardownSequential ==
    (cmd = "clean_aws" /\ (pc \in {"clean_sg_lookup", "clean_sg_delete"} \/ sgDelReqs > 0))
        => inst = Absent

\* C15: the database step of clean_aws issues the delete requests remove_rds_database
\* issues (none when the instance is absent or deleting, one otherwise) and like it
\* ends with the instance absent.
C15_CleanIsRemove ==
    (cmd = "clean_aws" /\ pc \in {"clean_sg_lookup", "clean_sg_delete", "clean_iam", "done"}) =>
        /\ inst = Absent
        /\ delReqs = (IF start.inst \in Statuses \ {"deleting"} THEN 1 ELSE 0)

\* C16: clean_aws returns normally, whether or not the role and its policy
\* attachments exist.
C16_TeardownReturns ==
    (cmd = "clean_aws" /\ pc = "done") => result = "returned"

\* C17: setup_aws is sequential: the deployment target is asked for and the publish
\* steps run only after setup_rds has returned a host, the rds_host written to
\* rds_vals.txt and copied to the server is that returned host, and when setup_rds
\* ends with an error no target is asked for and nothing is written or copied.
C17_SetupSequential ==
    /\ (pc \in {"get_ec2_details", "write_config", "transfer", "clean_up"} \/ urls # "none")
           => (cmd = "setup_rds" /\ result = "host" /\ host # 0 /\ rds_host = host)
    /\ (pc \in {"write_config", "transfer", "clean_up"} \/ urls # "none") => ec2_host_name # "none"
    /\ (pc \in {"transfer", "clean_up"}) => (rds_vals.exists /\ rds_vals.rds_host = host)
    /\ (pc = "clean_up" \/ urls # "none") => (uploaded.exists /\ uploaded.rds_host = host)
    /\ uploaded.exists => (result = "host" /\ uploaded.rds_host = host)
    /\ (pc \in {"idle", "done", "get_ec2_details", "write_config"} \/ cmd # "setup_rds")
           => ~rds_vals.exists
    /\ result # "host"
           => (rds_host = 0 /\ ec2_host_name = "none" /\ ~uploaded.exists /\ urls = "none")

\* A setup that recreated the instance has published the host of the new instance.
C17_Witness ==
    /\ cmd = "setup_rds" /\ pc = "done"
    /\ urls = "ec2-b"
    /\ uploaded = [exists |-> TRUE, rds_host |-> 2]
    /\ host = 2 /\ start.gen = 1
    /\ ~rds_vals.exists

\* C18: two users' invocations do not interfere: the security group an invocation of
\* setup_rds created or looked up still exists, under the id the invocation holds,
\* whenever the invocation goes on to use it (authorize, create_db_instance), whatever
\* the other user's setup or teardown does in between.
C18_UsersDoNotInterfere ==
    (cmd = "setup_rds" /\ pc \in {"sg_authorize", "rds_create"} /\ security_group_id # None)
        => sg = security_group_id

C20_BalanceBoolean ==
    (/\ call.fn = "check_mturk_balance"
     /\ call.pc \in {"returned", "raised"}
     /\ "user_balance" \in DOMAIN call)
        => /\ call.pc = "returned"
           /\ call.ret = (IF call.user_balance * 10 >= call.balance_needed * 12
                          THEN "True" ELSE "False")

\* C21: in check_mturk_balance the error of an account that is not linked to MTurk
\* (RequestError) ends the process: nothing is returned or raised; every other error
\* of the balance read is raised to the caller; in neither case is a balance read or
\* compared.
C21_UnlinkedAccountIsFatal ==
    (call.fn = "check_mturk_balance" /\ call.pc # "get_account_balance") =>
        /\ call.answer = "RequestError" =>
                (call.pc = "quit" /\ DOMAIN call \cap {"ret", "user_balance"} = {})
        /\ call.answer = "ServiceFault" =>
                (call.pc = "raised" /\ call.ret = "ClientError" /\ "user_balance" \notin DOMAIN call)
        /\ call.pc = "quit" => call.answer = "RequestError"
        /\ call.pc \in {"compare", "returned"} => call.answer = "ok"

\* The balance read of a production call was answered with RequestError.
C21_Witness ==
    /\ call.fn = "check_mturk_balance" /\ call.pc = "quit"
    /\ call.answer = "RequestError" /\ call.balance_needed = 5 /\ ~call.is_sandbox

\* C22: setup_ec2_server_api writes a file under html/ of the application root iff its
\* source path has a segment equal to html, and under the application root otherwise
\* (also when html occurs only inside a longer segment or the file name); the remote
\* file name is the last segment of the source path.
C22_HtmlSegmentDecidesDirectory ==
    call.fn = "setup_ec2_server_api" =>
        \A i \in 1..Len(call.puts) :
            LET put == call.puts[i]
                parts == split(put.src)
            IN  /\ put.dest.filename = parts[Len(parts)]
                /\ (put.dest.dir = <<"/var/www/demoapp/", "html/">>)
                        <=> (\E j \in 1..Len(parts) : parts[j] = <<"html">>)
                /\ put.dest.dir \in {<<"/var/www/demoapp/", "html/">>, <<"/var/www/demoapp/">>}

\* C23: rds_vals.txt and hit_config.json are removed after the transfer unless kept:
\* when setup_ec2_server_api has returned with should_clean_up_after_upload neither
\* file exists locally, without it both still exist, and neither file is removed
\* before every entry of files_to_copy has been put.
C23_ArtifactsRemovedAfterTransfer ==
    call.fn = "setup_ec2_server_api" =>
        /\ (call.pc = "returned" /\ call.should_clean_up_after_upload)
                => call.local \cap {"rds_vals.txt", "hit_config.json"} = {}
        /\ (call.pc = "returned" /\ ~call.should_clean_up_after_upload)
                => {"rds_vals.txt", "hit_config.json"} \subseteq call.local
        /\ call.pc \in {"connect", "open_sftp", "put", "close", "clean_up"}
                => "rds_vals.txt" \in call.local
        /\ (call.pc \in {"put", "close", "clean_up"} /\ Len(call.puts) >= 2)
                => "hit_config.json" \in call.local
        /\ call.pc \in {"return", "returned"}
                => (Len(call.puts) = Len(call.task_files_to_copy) + 4
                    /\ call.puts[Len(call.puts)].src = <<"rds_vals.txt">>)

\* A call with the default clean-up has returned after its five transfers.
C23_Witness ==
    /\ call.fn = "setup_ec2_server_api" /\ call.pc = "returned"
    /\ call.should_clean_up_after_upload
    /\ call.local = {}
    /\ Len(call.puts) = 5

\* C24: setup_ec2_server_api renders rds_vals.txt, opens the session, opens the
\* transfer channel, puts every entry, issues the restart once and only after the
\* last put, closes channel and session and returns, with no step between the restart
\* and the return that reads an answer of the server; the urls returned are
\* https://<ec2_host_name>/html and https://<ec2_host_name>/json.
C24_PublishOrderAndUrls ==
    call.fn = "setup_ec2_server_api" =>
        /\ call.ssh # "none" => (call.rds_vals = call.rds_host /\ call.pc # "render")
        /\ call.sftp # "none" => call.ssh # "none"
        /\ Len(call.puts) > 0 => call.sftp # "none"
        /\ call.restarts \in {0, 1}
        /\ call.restarts = 1
                => (Len(call.puts) = Len(call.task_files_to_copy) + 4
                    /\ call.pc \in {"close", "clean_up", "return", "returned"})
        /\ (call.ssh = "closed" \/ call.sftp = "closed")
                => (call.restarts = 1 /\ call.ssh = "closed" /\ call.sftp = "closed")
        /\ call.pc \in {"clean_up", "return", "returned"} => call.ssh = "closed"
        /\ call.pc = "returned"
                => call.ret = << <<"https://", call.ec2_host_name, "/", "html">>,
                                <<"https://", call.ec2_host_name, "/", "json">> >>
        /\ call.pc # "returned" => call.ret = <<>>

\* A call for the second host has returned its urls.
C24_Witness ==
    /\ call.fn = "setup_ec2_server_api" /\ call.pc = "returned"
    /\ call.ec2_host_name = "ec2-b"
    /\ call.restarts = 1 /\ call.ssh = "closed"
    /\ call.ret[2] = <<"https://", "ec2-b", "/", "json">>

\* C25: create_hit_with_hit_type returns a preview link on the sandbox worker domain
\* when is_sandbox and on the production domain when not, posts to the endpoint the
\* same flag selects, and embeds the page url with every ampersand escaped: no "&"
\* of the embedded url is without its "amp;".
C25_PreviewDomainAndEscaping ==
    (call.fn = "create_hit_with_hit_type" /\ call.pc # "entry") =>
        /\ \A i \in 1..Len(call.ExternalURL) :
                call.ExternalURL[i] = "&"
                    => (i < Len(call.ExternalURL) /\ call.ExternalURL[i + 1] = "amp;")
        /\ Len(call.ExternalURL) >= Len(call.page_url)
        /\ call.endpoint = (IF call.is_sandbox
                            THEN "https://mturk-requester-sandbox.us-east-1.amazonaws.com"
                            ELSE "region default")
        /\ call.pc = "returned" =>
                /\ call.posted = call.endpoint
                /\ call.ret[1] = (IF call.is_sandbox THEN "https://workersandbox.mturk.com"
                                                     ELSE "https://www.mturk.com")
                /\ call.ret[2] = "/mturk/preview?groupId="

\* A production listing for a url with two ampersands, one of them already escaped.
C25_Witness ==
    /\ call.fn = "create_hit_with_hit_type" /\ call.pc = "returned"
    /\ ~call.is_sandbox
    /\ call.page_url = <<"a", "&", "&", "amp;">>
    /\ call.ExternalURL = <<"a", "&", "amp;", "&", "amp;", "amp;">>
    /\ call.ret[1] = "https://www.mturk.com"

\* C27 as claimed: setup_rds issues a delete request only after the run observed a
\* class other than the desired one or a health of inconsistent_schema or
\* unknown_error, and never for an instance that is creating, in another transient
\* status, or available with acceptable health.
C27_RecreateOnlyOnMismatch ==
    [][(cmd = "setup_rds" /\ delReqs' = delReqs + 1) =>
        /\ (instClass # "db.t2.medium"
                \/ database_health_status \in {"inconsistent_schema", "unknown_error"})
        /\ inst \notin {"creating", "backing-up", "modifying"}
        /\ inst = "available" => database_health_status \notin {"missing_table", "healthy"}]_vars

\* C27 as amended: setup_rds calls remove_rds_database only where it has just seen a
\* class other than the desired one or a health of inconsistent_schema or
\* unknown_error, and a delete request is issued only in such a call; an instance of
\* the desired class is deleted only after such a health outcome, while an instance
\* of another class is deleted in whatever status it is, creating included.
C27_RecreateOnlyOnObservedCause ==
    [][/\ (cmd = "setup_rds" /\ cmd' = "setup_rds" /\ pc' = "rm_describe" /\ pc # "rm_describe") =>
            /\ retpc' = "rds_create"
            /\ \/ pc = "rds_describe" /\ inst # Absent /\ instClass # "db.t2.medium"
               \/ /\ pc = "check_health"
                  /\ database_health_status' \in {"inconsistent_schema", "unknown_error"}
                  /\ database_health_status' = schema
       /\ (cmd = "setup_rds" /\ delReqs' = delReqs + 1) =>
            /\ pc = "rm_delete" /\ retpc = "rds_create"
            /\ (instClass # "db.t2.medium"
                    \/ database_health_status \in {"inconsistent_schema", "unknown_error"})
            /\ (instClass = "db.t2.medium" => database_health_status = schema)]_vars

\* A run has deleted an instance of the desired class after its health check
\* reported an inconsistent schema, and created the next one.
C27_Witness ==
    /\ cmd = "setup_rds"
    /\ start.class = "db.t2.medium" /\ start.schema = "inconsistent_schema"
    /\ delReqs = 1 /\ createReqs = 2
    /\ instGen = 2

\* C28: setup_rds never reaches create_db_instance with security_group_id unset: the
\* request carries the id of the existing group of the fixed name, however the
\* security-group step went.
C28_CreateCarriesGroupId ==
    (cmd = "setup_rds" /\ (pc = "rds_create" \/ createReqs > 0))
        => (security_group_id # None /\ sg # None /\ security_group_id = sg)

\* C29: when the security-group step of setup_rds is over and the run goes on to the
\* instance, the group of the fixed name has the ingress rule of the database port,
\* also when the group was found by the duplicate-name lookup after an earlier run
\* whose authorize request failed.
C29_GroupHasIngressRule ==
    (cmd = "setup_rds" /\ pc \notin {"sg_create", "sg_authorize", "sg_lookup"} /\ sgPath \in {"created", "lookup"})
        => (sg # None /\ sgIngress >= 1)

\* C30: TestSoloWorld takes two turns and is then done: no parley raises an error,
\* after the first parley the worker has been sent the first text and has answered
\* once and episode_done() is false, after the second the worker has been sent the
\* second text with episode_done set and has answered twice, and episode_done() is
\* true after exactly two parleys.
C30_SoloWorldTakesTwoTurns ==
    call.fn = "TestSoloWorld" =>
        /\ call.pc # "raised"
        /\ call.error = "none"
        /\ call.pc \in {"loop", "finished"} =>
                /\ Len(call.observed) = call.parleys
                /\ Len(call.responses) = call.parleys
                /\ call.episodeDone <=> (call.parleys = 2)
                /\ call.parleys >= 1 =>
                        call.observed[1] = [episode_done |-> FALSE, id |-> "SYSTEM", text |-> "FIRST_MESSAGE"]
                /\ call.parleys >= 2 =>
                        call.observed[2] = [episode_done |-> TRUE, id |-> "SYSTEM", text |-> "SECOND_MESSAGE"]
        /\ call.pc = "finished" => call.parleys = 2

\* C31: TestDuoWorld.parley has the participants send messages in a circle until one
\* marks the episode as done: the agents act in list order, each act is observed by
\* every other agent and never by the acting agent, episode_done() becomes true as
\* soon as an act has episode_done set and never reverts to false, and no agent acts
\* after an agent has marked the episode as done.
C31_CircleUntilDone ==
    [][/\ (call.fn = "TestDuoWorld" /\ call.pc = "parley") =>
            LET agent == (Len(call.acted) % call.agents) + 1 IN
            /\ call'.acted = Append(call.acted, agent)
            /\ \A other_agent \in 1..call.agents :
                    call'.observed[other_agent] =
                        IF other_agent # agent
                        THEN Append(call.observed[other_agent], call'.acts[agent])
                        ELSE call.observed[other_agent]
            /\ call'.episodeDone = (call.episodeDone \/ call'.acts[agent].episode_done)
            /\ ~call.episodeDone
       /\ (call.fn = "TestDuoWorld" /\ call.episodeDone) => call'.episodeDone]_vars
====
